---- MODULE Spec2Model ----
(***************************************************************************)
(* EdgeCV4Safety speed controller: SpeedControllerUDP.py (main task and    *)
(* the RTDE controller thread) together with its decoding subprocess       *)
(* udp_listener.py.                                                        *)
(*                                                                         *)
(* Units.  Distances are integers in 1/Unit of a metre; speed fractions    *)
(* are integers in percent (0.3 is 30, the initial -1.0 is -100).  Time is *)
(* counted in whole seconds: a time.sleep(n), wait(timeout=n) or           *)
(* join(timeout=n) with n >= 1 holds a countdown that only Tick lowers,    *)
(* and Tick moves time to the next moment a countdown reaches 0; the       *)
(* sub-second waits (poll(100), sleep(1/RTDE_FREQUENCY), sleep(0.1)) take  *)
(* no Tick.                                                                *)
(***************************************************************************)
EXTENDS Integers, Sequences, FiniteSets

(* ------------------------------ bounds -------------------------------- *)
\* resolution of a distance: units per metre
Unit == 10
\* datagrams the decoder relays in one run
MaxSamples == 2
\* lines typed on the console in one run
MaxConsole == 1
\* lines the decoder writes to its stderr in one run
MaxErr == 1

(* ------------------------- program constants -------------------------- *)
VELOCITY_THRESHOLD_0_5M == 0
VELOCITY_THRESHOLD_1M == 30
VELOCITY_2M_THRESHOLD == 70
VELOCITY_3M_THRESHOLD == 100
VELOCITY_OVER_3M_THRESHOLD == 100
MAX_RETRIES == 5
\* time.sleep(2) between connect attempts
RETRY_DELAY == 2
\* time.sleep(10) after ConnectionRefusedError
REFUSED_BACKOFF == 10
\* time.sleep(5) after any other exception
ERROR_BACKOFF == 5
\* time.sleep(30) at the end of the finally block
COOLDOWN == 30
\* udp_process.wait(timeout=2)
CHILD_GRACE == 2
\* rtde_thread.join(timeout=5)
JOIN_TIMEOUT == 5
\* current_distance = -1.0 and previous_speed_fraction = -1.0, in metres and
\* as a fraction
INITIAL_SENTINEL == -1

(* ----------------------------- distances ------------------------------ *)
\* the float NaN, which compares false with everything; encoded as an
\* integer outside the range of the distances
MaxDistance == 5 * Unit
MinDistance == -2 * Unit
NaN == MaxDistance + 1
AllDistances == (MinDistance .. MaxDistance) \cup {NaN}
\* float comparison a < b and a <= b
FLt(a, b) == a # NaN /\ b # NaN /\ a < b
FLe(a, b) == a # NaN /\ b # NaN /\ a <= b

\* the distances the sensor sends in the system specification: 0.5 m, in the
\* 0.0 band, and 3 m, in a 1.0 band like the initial -1.0
SampleDistances == {Unit \div 2, 3 * Unit}

(* --------------------------- Speed Governor --------------------------- *)
calculate_speed_fraction_offbyone(distance) ==
    IF FLt(distance, 0) THEN VELOCITY_OVER_3M_THRESHOLD
    ELSE IF FLe(distance, 1 * Unit) THEN VELOCITY_THRESHOLD_0_5M
    ELSE IF FLe(1 * Unit, distance) /\ FLt(distance, 2 * Unit) THEN VELOCITY_THRESHOLD_1M
    ELSE IF FLe(2 * Unit, distance) /\ FLt(distance, 3 * Unit) THEN VELOCITY_2M_THRESHOLD
    ELSE IF FLe(3 * Unit, distance) /\ FLt(distance, 4 * Unit) THEN VELOCITY_3M_THRESHOLD
    ELSE VELOCITY_OVER_3M_THRESHOLD

calculate_speed_fraction(distance) ==
    IF FLt(distance, 0) THEN VELOCITY_OVER_3M_THRESHOLD
    ELSE IF FLt(distance, 1 * Unit) THEN VELOCITY_THRESHOLD_0_5M
    ELSE IF FLe(1 * Unit, distance) /\ FLt(distance, 2 * Unit) THEN VELOCITY_THRESHOLD_1M
    ELSE IF FLe(2 * Unit, distance) /\ FLt(distance, 3 * Unit) THEN VELOCITY_2M_THRESHOLD
    ELSE IF FLe(3 * Unit, distance) /\ FLt(distance, 4 * Unit) THEN VELOCITY_3M_THRESHOLD
    ELSE VELOCITY_OVER_3M_THRESHOLD

(* ------------------------------- state -------------------------------- *)
VARIABLES
    \* shared between the two tasks
    stop_event,           \* threading.Event: TRUE once set
    distance_queue,       \* queue.Queue(): the samples put and not yet got
    \* the decoding subprocess and the console
    child,                \* "running" | "exited"
    udp_socket,           \* datagrams in the child's socket, not yet received
    child_out,            \* complete lines in the child's stdout pipe
    child_err,            \* stderr lines: in the pipe, held by the reader
    console,              \* lines typed on sys.stdin and not yet read
    \* main()
    main_pc,
    rd_buf,               \* lines udp_process.stdout holds in its read buffer
    main_timer,           \* seconds left of wait(timeout=2) / join(timeout=5)
    term_sent,            \* udp_process.terminate() was called
    kill_sent,            \* udp_process.kill() was called
    \* run_rtde_controller()
    ctl_pc,
    con,                  \* "None" | "new" | "up" | "down"
    retries,
    ctl_sleep,            \* seconds left of the time.sleep the thread is in
    input_data,           \* "None" | "with" | "without" (speed_slider_fraction)
    current_distance,
    previous_speed_fraction,
    new_speed_fraction,
    \* what was called on the session object con was last bound to
    sess,
    \* observations the properties are stated on
    published,            \* every value put on distance_queue, in order
                          \* (the newest MaxHistory of them)
    obs

vars == << stop_event, distance_queue, child, udp_socket, child_out, child_err,
           console,
           main_pc, rd_buf, main_timer, term_sent, kill_sent,
           ctl_pc, con, retries, ctl_sleep, input_data, current_distance,
           previous_speed_fraction, new_speed_fraction, sess,
           published, obs >>

shared_vars == << stop_event, distance_queue >>
env_vars == << child, udp_socket, child_out, child_err, console >>
main_vars == << main_pc, rd_buf, main_timer, term_sent, kill_sent >>
ctl_vars == << ctl_pc, con, retries, ctl_sleep, input_data, current_distance,
               previous_speed_fraction, new_speed_fraction, sess >>

\* current_distance starting at 0.0 m, as if a measurement had been taken
INITIAL_DISTANCE_zero == 0 * Unit

\* line 66: current_distance = -1.0
INITIAL_DISTANCE == INITIAL_SENTINEL * Unit
INITIAL_FRACTION == INITIAL_SENTINEL * 100

\* what a call into the rtde library can do: return a true value, return a
\* false value, raise
Outcomes == {"ok", "false", "raise"}

\* a session object on which nothing has been called yet
NewSession ==
    [ connects |-> 0,        \* con.connect() calls
      inp |-> "no",          \* send_input_setup:  "no" | "ok" | "fail"
      out |-> "no",          \* send_output_setup
      start |-> "no",        \* send_start
      cyclic |-> FALSE,      \* receive() or send() was called
      paused |-> FALSE,      \* send_pause() was called
      disc |-> FALSE,        \* disconnect() was called
      sent |-> INITIAL_FRACTION ]  \* the fraction of the last send() that
                             \* returned true (the sentinel: none yet)

NewObs ==
    [ run_cycles |-> 0,                  \* cycles completed since the computed
                                         \* fraction last changed (2: two or more)
      run_sent |-> 0,                    \* con.send() calls that returned in them
      drain_value |-> INITIAL_DISTANCE,  \* current_distance when the last drain ended
      put_since |-> FALSE,               \* a put since the last drain ended
      slept_on |-> FALSE,                \* time has passed with stop_event set and
                                         \* the controller in a time.sleep
      stop_cause |-> "none",             \* what set stop_event first: "q" | "child"
                                         \* | "interrupt"
      held_at_stop |-> FALSE ]           \* the session was connected when
                                         \* stop_event was set

UpTo2(n) == IF n < 2 THEN n ELSE 2

is_connected == con = "up"

\* the controller thread is a daemon: it runs until main() returns
CtlAlive == main_pc # "exited" /\ ctl_pc # "ended"

(* ------------------- run_rtde_controller (the thread) ------------------ *)
\* an exception leaves the try block for one of the two handlers, which sleep
Raise(handler, seconds) ==
    /\ ctl_pc' = handler
    /\ ctl_sleep' = seconds

\* line 177-179: except ConnectionRefusedError
RaiseRefused == Raise("except_refused", REFUSED_BACKOFF)

\* RaiseError with no handler for it: the exception ends the thread
RaiseError_unhandled == Raise("ended", 0)

\* line 180-182: except Exception
RaiseError == Raise("except_error", ERROR_BACKOFF)

\* line 70-76: the outer loop's test, a new session object, retries = 0
CtlTop ==
    /\ CtlAlive /\ ctl_pc = "top"
    /\ IF stop_event
       THEN /\ ctl_pc' = "ended"
            /\ UNCHANGED << con, sess >>
       ELSE /\ ctl_pc' = "connect_loop"
            /\ con' = "new"
            /\ sess' = NewSession
    /\ retries' = 0
    /\ UNCHANGED << ctl_sleep, input_data, current_distance,
                    previous_speed_fraction, new_speed_fraction >>
    /\ UNCHANGED << shared_vars, env_vars, main_vars, published, obs >>

\* RetriesExhausted with the comparison off by one
RetriesExhausted_late == retries > MAX_RETRIES

\* line 79
RetriesExhausted == retries >= MAX_RETRIES

\* line 78-90: the connection loop's test, the retry budget and
\* con.connect(): connected breaks out of the loop, anything else (an
\* exception, or a return without a connection) sleeps 2 s
CtlConnectLoop ==
    /\ CtlAlive /\ ctl_pc = "connect_loop"
    /\ IF is_connected \/ stop_event
       THEN /\ ctl_pc' = "after_connect"
            /\ UNCHANGED << con, ctl_sleep, sess >>
       ELSE IF RetriesExhausted
            THEN /\ RaiseRefused
                 /\ UNCHANGED << con, sess >>
            ELSE /\ sess' = [sess EXCEPT !.connects = @ + 1]
                 /\ \E o \in Outcomes :
                      IF o = "ok"
                      THEN /\ con' = "up"
                           /\ ctl_pc' = "after_connect"
                           /\ UNCHANGED ctl_sleep
                      ELSE /\ con' = con
                           /\ ctl_pc' = "retry_sleep"
                           /\ ctl_sleep' = RETRY_DELAY
    /\ UNCHANGED << retries, input_data, current_distance,
                    previous_speed_fraction, new_speed_fraction >>
    /\ UNCHANGED << shared_vars, env_vars, main_vars, published, obs >>

\* line 90-91: the sleep is over; retries += 1
CtlRetryWake ==
    /\ CtlAlive /\ ctl_pc = "retry_sleep" /\ ctl_sleep = 0
    /\ retries' = retries + 1
    /\ ctl_pc' = "connect_loop"
    /\ UNCHANGED << con, ctl_sleep, input_data, current_distance,
                    previous_speed_fraction, new_speed_fraction, sess >>
    /\ UNCHANGED << shared_vars, env_vars, main_vars, published, obs >>

\* line 93-98: not connected raises ConnectionRefusedError; then the recipe
\* file is loaded, which raises when it is missing or has no such recipe.
\* retries is not read again before line 76 sets it to 0, and the count of
\* this pass's connect() calls ends with the loop.
CtlAfterConnect ==
    /\ CtlAlive /\ ctl_pc = "after_connect"
    /\ IF ~is_connected
       THEN RaiseRefused
       ELSE \E loaded \in BOOLEAN :
              IF loaded
              THEN ctl_pc' = "input_setup" /\ UNCHANGED ctl_sleep
              ELSE RaiseError
    /\ retries' = 0
    /\ sess' = [sess EXCEPT !.connects = 0]
    /\ UNCHANGED << con, input_data, current_distance,
                    previous_speed_fraction, new_speed_fraction >>
    /\ UNCHANGED << shared_vars, env_vars, main_vars, published, obs >>

\* StepFailed that takes only an exception for a failure
StepFailed_only_raise(o) == o = "raise"

\* line 104, 123, 130: `if not ...: raise`, or the call itself raised
StepFailed(o) == o # "ok"

\* line 103-119: send_input_setup returns the input object (whose recipe
\* has the field speed_slider_fraction or not), a false value, or raises
CtlInputSetup ==
    /\ CtlAlive /\ ctl_pc = "input_setup"
    /\ \E o \in Outcomes, field \in {"with", "without"} :
         /\ input_data' = IF o = "ok" THEN field ELSE "None"
         /\ sess' = [sess EXCEPT !.inp = IF o = "ok" THEN "ok" ELSE "fail"]
         /\ IF StepFailed(o)
            THEN RaiseError
            ELSE ctl_pc' = "output_setup" /\ UNCHANGED ctl_sleep
    /\ UNCHANGED << con, retries, current_distance,
                    previous_speed_fraction, new_speed_fraction >>
    /\ UNCHANGED << shared_vars, env_vars, main_vars, published, obs >>

\* line 123-126
CtlOutputSetup ==
    /\ CtlAlive /\ ctl_pc = "output_setup"
    /\ \E o \in Outcomes :
         /\ sess' = [sess EXCEPT !.out = IF o = "ok" THEN "ok" ELSE "fail"]
         /\ IF StepFailed(o)
            THEN RaiseError
            ELSE ctl_pc' = "send_start" /\ UNCHANGED ctl_sleep
    /\ UNCHANGED << con, retries, input_data, current_distance,
                    previous_speed_fraction, new_speed_fraction >>
    /\ UNCHANGED << shared_vars, env_vars, main_vars, published, obs >>

\* line 130-133
CtlSendStart ==
    /\ CtlAlive /\ ctl_pc = "send_start"
    /\ \E o \in Outcomes :
         /\ sess' = [sess EXCEPT !.start = IF o = "ok" THEN "ok" ELSE "fail"]
         /\ IF StepFailed(o)
            THEN RaiseError
            ELSE ctl_pc' = "cycle" /\ UNCHANGED ctl_sleep
    /\ UNCHANGED << con, retries, input_data, current_distance,
                    previous_speed_fraction, new_speed_fraction >>
    /\ UNCHANGED << shared_vars, env_vars, main_vars, published, obs >>

\* NoPacket that takes a missing packet for a lost connection
NoPacket_lost == "finally"

\* line 168-175: receive() returned None: a log line, the cycle's sleep, and
\* the loop's test again
NoPacket == "cycle"

\* line 136-138, 168-175: the cyclic loop's test, then con.receive(), which
\* returns a state packet, returns nothing (the cycle ends with its
\* sleep(1 / RTDE_FREQUENCY), less than a second), or raises
CtlCycle ==
    /\ CtlAlive /\ ctl_pc = "cycle"
    /\ IF ~stop_event /\ is_connected
       THEN /\ sess' = [sess EXCEPT !.cyclic = TRUE]
            /\ \E o \in {"state", "none", "raise"} :
                 CASE o = "state" -> ctl_pc' = "drain" /\ UNCHANGED ctl_sleep
                   [] o = "none" -> ctl_pc' = NoPacket /\ UNCHANGED ctl_sleep
                   [] OTHER -> RaiseError
       ELSE /\ ctl_pc' = "finally"
            /\ UNCHANGED << ctl_sleep, sess >>
    /\ UNCHANGED << con, retries, input_data, current_distance,
                    previous_speed_fraction, new_speed_fraction >>
    /\ UNCHANGED << shared_vars, env_vars, main_vars, published, obs >>

\* DrainTest that leaves the newest sample in the queue
DrainTest_leaves_one == Len(distance_queue) > 1

\* line 141: while not distance_queue.empty()
DrainTest == distance_queue # << >>

\* QueueFront that hands out the newest sample first
QueueFront_newest(q) == q[Len(q)]

\* line 41, 142: a queue.Queue is first in, first out: get_nowait() returns
\* the oldest item
QueueFront(q) == Head(q)

\* line 141-142: one turn of the loop that empties the queue (this thread is
\* the only consumer, so get_nowait() after a false empty() never raises)
CtlDrainGet ==
    /\ CtlAlive /\ ctl_pc = "drain"
    /\ DrainTest
    /\ current_distance' = QueueFront(distance_queue)
    /\ distance_queue' = Tail(distance_queue)
    /\ UNCHANGED << ctl_pc, con, retries, ctl_sleep, input_data,
                    previous_speed_fraction, new_speed_fraction, sess >>
    /\ UNCHANGED << stop_event, env_vars, main_vars, published, obs >>

\* line 141, 148: the queue is empty; new_speed_fraction is computed from
\* current_distance
CtlCompute ==
    /\ CtlAlive /\ ctl_pc = "drain"
    /\ ~DrainTest
    /\ new_speed_fraction' = calculate_speed_fraction(current_distance)
    /\ ctl_pc' = "gate"
    /\ obs' = [obs EXCEPT
                 !.drain_value = current_distance,
                 !.put_since = FALSE,
                 !.run_cycles = IF new_speed_fraction' = new_speed_fraction THEN @ ELSE 0,
                 !.run_sent = IF new_speed_fraction' = new_speed_fraction THEN @ ELSE 0]
    /\ UNCHANGED << con, retries, ctl_sleep, input_data, current_distance,
                    previous_speed_fraction, sess >>
    /\ UNCHANGED << shared_vars, env_vars, main_vars, published >>

\* SendGate without the comparison: a transmission in every cycle
SendGate_every_cycle ==
    input_data # "None" /\ input_data = "with"

\* line 151-152
SendGate ==
    /\ input_data # "None" /\ input_data = "with"
    /\ new_speed_fraction # previous_speed_fraction

\* line 151-157, 175: the changed fraction is written and sent, con.send()
\* returns (its value is not looked at) or raises; an unchanged one is not
\* sent; the cycle ends with its sleep(1 / RTDE_FREQUENCY)
CtlSend ==
    /\ CtlAlive /\ ctl_pc = "gate"
    /\ IF SendGate
       THEN \E o \in Outcomes :
              /\ sess' = [sess EXCEPT !.cyclic = TRUE,
                                     !.sent = IF o = "ok" THEN new_speed_fraction
                                              ELSE @]
              /\ IF o = "raise"
                 THEN /\ RaiseError
                      /\ UNCHANGED << previous_speed_fraction, obs >>
                 ELSE /\ previous_speed_fraction' = new_speed_fraction
                      /\ ctl_pc' = "cycle" /\ UNCHANGED ctl_sleep
                      /\ obs' = [obs EXCEPT !.run_sent = UpTo2(@ + 1),
                                            !.run_cycles = UpTo2(@ + 1)]
       ELSE /\ ctl_pc' = "cycle"
            /\ obs' = [obs EXCEPT !.run_cycles = UpTo2(@ + 1)]
            /\ UNCHANGED << ctl_sleep, previous_speed_fraction, sess >>
    /\ UNCHANGED << con, retries, input_data, current_distance, new_speed_fraction >>
    /\ UNCHANGED << shared_vars, env_vars, main_vars, published >>

\* line 177-182: the handler's sleep (10 s or 5 s) is over
CtlBackoffWake ==
    /\ CtlAlive /\ ctl_pc \in {"except_refused", "except_error"} /\ ctl_sleep = 0
    /\ ctl_pc' = "finally"
    /\ UNCHANGED << con, retries, ctl_sleep, input_data, current_distance,
                    previous_speed_fraction, new_speed_fraction, sess >>
    /\ UNCHANGED << shared_vars, env_vars, main_vars, published, obs >>

\* FinallyGuard that lets a disconnected session through as well
FinallyGuard_any == con # "None"

\* line 185
FinallyGuard == con # "None" /\ is_connected

\* line 183-197: the finally block: on a session still connected,
\* con.send_pause() and then con.disconnect(); when send_pause raises, the
\* handler logs it and disconnect() is not reached; then con = None and the
\* 30 s sleep.  input_data is not read again before line 103 assigns it.
CtlFinally ==
    /\ CtlAlive /\ ctl_pc = "finally"
    /\ IF FinallyGuard
       THEN \E o \in Outcomes :
              sess' = [sess EXCEPT !.paused = TRUE, !.disc = (o # "raise")]
       ELSE UNCHANGED sess
    /\ con' = "None"
    /\ input_data' = "None"
    /\ ctl_pc' = "cooldown"
    /\ ctl_sleep' = COOLDOWN
    /\ UNCHANGED << retries, current_distance,
                    previous_speed_fraction, new_speed_fraction >>
    /\ UNCHANGED << shared_vars, env_vars, main_vars, published, obs >>

\* line 197, 70: the 30 s are over; back to the outer loop's test
CtlCooldownWake ==
    /\ CtlAlive /\ ctl_pc = "cooldown" /\ ctl_sleep = 0
    /\ ctl_pc' = "top"
    /\ UNCHANGED << con, retries, ctl_sleep, input_data, current_distance,
                    previous_speed_fraction, new_speed_fraction, sess >>
    /\ UNCHANGED << shared_vars, env_vars, main_vars, published, obs >>

\* the robot side or the network ends the connection: is_connected() turns
\* false
ConnectionLost ==
    /\ CtlAlive /\ con = "up"
    /\ con' = "down"
    /\ UNCHANGED << ctl_pc, retries, ctl_sleep, input_data, current_distance,
                    previous_speed_fraction, new_speed_fraction, sess >>
    /\ UNCHANGED << shared_vars, env_vars, main_vars, published, obs >>

Ctl ==
    \/ CtlTop \/ CtlConnectLoop \/ CtlRetryWake \/ CtlAfterConnect
    \/ CtlInputSetup \/ CtlOutputSetup \/ CtlSendStart
    \/ CtlCycle \/ CtlDrainGet \/ CtlCompute \/ CtlSend
    \/ CtlBackoffWake \/ CtlFinally \/ CtlCooldownWake

(* ------------------ the decoding subprocess and console ---------------- *)
\* A text is a sequence of marks: the word DISTANCE, a character, or the
\* text of one float (with the float as v), which float() reads back to the
\* same value (repr of a float round-trips)
Chr(c) == [c |-> c, v |-> 0]
FloatText(d) == [c |-> "float", v |-> d]

\* udp_listener.py line 83: f"DISTANCE:{received_distance}", without the \n
DistanceLine(d) == << Chr("DISTANCE"), Chr(":"), FloatText(d) >>

\* line 248: line.startswith("DISTANCE:")
StartsWithDistance(line) ==
    Len(line) >= 2 /\ line[1] = Chr("DISTANCE") /\ line[2] = Chr(":")

RECURSIVE UpToColon(_)
UpToColon(t) ==
    IF t = << >> \/ Head(t) = Chr(":") THEN << >>
    ELSE << Head(t) >> \o UpToColon(Tail(t))

\* line 250: line.strip().split(':')[1] of a line that starts with DISTANCE:
SecondField(line) == UpToColon(SubSeq(line, 3, Len(line)))

\* console lines
ConsoleLines == { << Chr(" "), Chr("q") >>, << Chr("x") >> }

RECURSIVE LStrip(_)
LStrip(l) == IF l # << >> /\ Head(l) = Chr(" ") THEN LStrip(Tail(l)) ELSE l

RECURSIVE RStrip(_)
RStrip(l) ==
    IF l # << >> /\ l[Len(l)] = Chr(" ")
    THEN RStrip(SubSeq(l, 1, Len(l) - 1)) ELSE l

\* Strip that leaves the text as it is
Strip_nothing(l) == l

\* str.strip(), and the blanks float() skips around the number
Strip(l) == RStrip(LStrip(l))

\* line 250: float(text) returns; otherwise it raises ValueError
FloatParses(text) == Len(Strip(text)) = 1 /\ Strip(text)[1].c = "float"
ParseFloat(text) == Strip(text)[1].v

\* the record of what was put on the queue holds the newest MaxHistory
\* values; no more than MaxSamples are put where the sensor sends MaxSamples
\* datagrams, so that there the record is complete
MaxHistory == MaxSamples

Remember(history, value) ==
    IF Len(history) < MaxHistory THEN Append(history, value)
    ELSE Append(Tail(history), value)

\* the lines relayed so far: still in the pipe, held by main's reader, or
\* already put on the queue
Relayed == Len(child_out) + Len(rd_buf) + Len(published)

\* a datagram: the length of its payload and, for 4 bytes, the float they
\* are; the sensor sends 4 bytes, anything may send something else
Datagrams ==
    { [size |-> 4, value |-> d] : d \in SampleDistances }
    \cup { [size |-> n, value |-> 0] : n \in {3, 8} }

\* IsFloatDatagram that takes a longer payload as well
IsFloatDatagram_or_longer(dgram) == dgram.size >= 4

\* udp_listener.py line 77: len(data) == struct.calcsize('<f')
IsFloatDatagram(dgram) == dgram.size = 4

\* udp_listener.py line 77-88: what the decoder writes to stdout for a
\* datagram; the logging.info calls write nothing, no handler being set up
\* for that level
DecodedLines(dgram) ==
    IF IsFloatDatagram(dgram) THEN << DistanceLine(dgram.value) >> ELSE << >>

\* udp_listener.py line 74-88: recvfrom returns the oldest datagram in the
\* socket or, with none there, the next one to arrive (while the sensor has
\* one to send); a 4-byte datagram is unpacked and written to stdout as one
\* line, flushed
RelayWhile(sending) ==
    /\ main_pc = "loop" /\ child = "running"
    /\ \E dgram \in Datagrams :
         /\ IF udp_socket # << >>
            THEN dgram = Head(udp_socket) /\ udp_socket' = Tail(udp_socket)
            ELSE sending /\ UNCHANGED udp_socket
         /\ child_out' = child_out \o DecodedLines(dgram)
    /\ UNCHANGED << child, child_err, console >>
    /\ UNCHANGED << shared_vars, main_vars, ctl_vars, published, obs >>

\* the sensor sends MaxSamples datagrams in all
ChildRelay == RelayWhile(Relayed < MaxSamples)

\* the samples not yet used: in the pipe, held by main's reader, or waiting
\* on the queue
Unread == Len(child_out) + Len(rd_buf) + Len(distance_queue)

\* the sensor never stops sending: a datagram arrives whenever fewer than
\* MaxSamples samples are unread
ChildStream == RelayWhile(Unread < MaxSamples)

\* udp_listener.py line 90-93: logging.error writes to stderr
ChildLogError ==
    /\ main_pc = "loop" /\ child = "running"
    /\ child_err.pipe + child_err.held < MaxErr
    /\ child_err' = [child_err EXCEPT !.pipe = @ + 1]
    /\ UNCHANGED << child, udp_socket, child_out, console >>
    /\ UNCHANGED << shared_vars, main_vars, ctl_vars, published, obs >>

\* the child ends: udp_listener.py line 67 (sys.exit(1)), or a signal
ChildExit ==
    /\ main_pc # "exited" /\ child = "running"
    /\ child' = "exited"
    /\ UNCHANGED << udp_socket, child_out, child_err, console >>
    /\ UNCHANGED << shared_vars, main_vars, ctl_vars, published, obs >>

\* the user types a line and Enter (a terminal hands over one line a read)
ConsoleType ==
    /\ main_pc = "loop"
    /\ Len(console) < MaxConsole
    /\ \E l \in ConsoleLines : console' = Append(console, l)
    /\ UNCHANGED << child, udp_socket, child_out, child_err >>
    /\ UNCHANGED << shared_vars, main_vars, ctl_vars, published, obs >>

(* -------------------------------- main() ------------------------------- *)
\* line 242: the registered descriptors that poll() reports: data to read,
\* or the writing end closed
ReadyNow ==
    (IF child_out # << >> \/ child = "exited" THEN {"stdout"} ELSE {})
    \cup (IF child_err.pipe > 0 \/ child = "exited" THEN {"stderr"} ELSE {})
    \cup (IF console # << >> THEN {"stdin"} ELSE {})

\* line 246: udp_process.stdout.readline(): a line the reader already holds,
\* else one read of everything in the pipe, of which the first line is
\* returned and the rest is held; at end of file, nothing
StdoutLine ==
    IF rd_buf # << >> THEN << Head(rd_buf) >>
    ELSE IF child_out # << >> THEN << Head(child_out) >>
    ELSE << >>

\* line 246: what readline() leaves in the reader and in the pipe
ReadStdout ==
    IF rd_buf # << >>
    THEN rd_buf' = Tail(rd_buf) /\ UNCHANGED child_out
    ELSE IF child_out # << >>
         THEN rd_buf' = Tail(child_out) /\ child_out' = << >>
         ELSE UNCHANGED << rd_buf, child_out >>

\* line 263: udp_process.stderr.readline(), read the same way
ReadStderr ==
    IF child_err.held > 0 THEN [child_err EXCEPT !.held = @ - 1]
    ELSE IF child_err.pipe > 0 THEN [pipe |-> 0, held |-> child_err.pipe - 1]
    ELSE child_err

\* ChildExited that never sees the child gone
ChildExited_blind == FALSE

\* line 274, 291: udp_process.poll() is not None
ChildExited == child = "exited"

\* the read loop is left for the finally block; what is unread in the pipes,
\* in the reader and on the console is never read
LeaveLoop ==
    /\ main_pc' = "teardown"
    /\ child_out' = << >>
    /\ rd_buf' = << >>
    /\ child_err' = [pipe |-> 0, held |-> 0]
    /\ console' = << >>

\* line 245-261: a line read from stdout; a DISTANCE line is put on the queue
HandleStdout(line) ==
    IF /\ line # << >> /\ StartsWithDistance(line[1])
       /\ FloatParses(SecondField(line[1]))
    THEN /\ distance_queue' = Append(distance_queue, ParseFloat(SecondField(line[1])))
         /\ published' = Remember(published, ParseFloat(SecondField(line[1])))
    ELSE UNCHANGED << distance_queue, published >>

\* QuitTyped for which any console line will do
QuitTyped_any_line == "stdin" \in ReadyNow

\* line 266-270: the stripped console line is q
QuitTyped == "stdin" \in ReadyNow /\ Strip(Head(console)) = << Chr("q") >>

\* line 241-281: one turn of the read loop: the loop's test, poll(100), one
\* line from each ready descriptor (a DISTANCE line is put on the queue, the
\* stripped console line q sets stop_event), then the child's exit ends the
\* loop
MainLoop ==
    /\ main_pc = "loop"
    /\ IF stop_event
       THEN /\ LeaveLoop
            /\ UNCHANGED << stop_event, distance_queue, published, obs >>
       ELSE /\ IF "stdout" \in ReadyNow
               THEN HandleStdout(StdoutLine)
               ELSE UNCHANGED << distance_queue, published >>
            /\ stop_event' = (QuitTyped \/ ChildExited)
            /\ obs' = [obs EXCEPT
                         !.put_since = @ \/ published' # published,
                         !.stop_cause = IF QuitTyped THEN "q"
                                        ELSE IF ChildExited THEN "child" ELSE @,
                         !.held_at_stop = stop_event' /\ is_connected]
            /\ IF ChildExited
               THEN LeaveLoop
               ELSE /\ main_pc' = "loop"
                    /\ IF "stdout" \in ReadyNow
                       THEN ReadStdout
                       ELSE UNCHANGED << rd_buf, child_out >>
                    /\ child_err' = IF "stderr" \in ReadyNow THEN ReadStderr ELSE child_err
                    /\ console' = IF "stdin" \in ReadyNow THEN Tail(console) ELSE console
    /\ UNCHANGED << main_timer, term_sent, kill_sent >>
    /\ UNCHANGED << child, udp_socket >>
    /\ UNCHANGED ctl_vars

\* line 283-285: Ctrl+C while the loop runs
MainInterrupt ==
    /\ main_pc = "loop"
    /\ stop_event' = TRUE
    /\ obs' = [obs EXCEPT !.stop_cause = IF stop_event THEN @ ELSE "interrupt",
                          !.held_at_stop = IF stop_event THEN @ ELSE is_connected]
    /\ LeaveLoop
    /\ UNCHANGED << main_timer, term_sent, kill_sent >>
    /\ UNCHANGED << distance_queue, child, udp_socket, ctl_vars, published >>

\* line 286-295: the finally block: after 0.1 s, a child still running is
\* sent SIGTERM and waited for
MainTeardown ==
    /\ main_pc = "teardown"
    /\ IF ~ChildExited
       THEN /\ term_sent' = TRUE
            /\ main_pc' = "wait_child"
            /\ main_timer' = CHILD_GRACE
       ELSE /\ main_pc' = "join"
            /\ main_timer' = JOIN_TIMEOUT
            /\ UNCHANGED term_sent
    /\ UNCHANGED << rd_buf, kill_sent >>
    /\ UNCHANGED << shared_vars, env_vars, ctl_vars, published, obs >>

\* GraceExpired without the wait
GraceExpired_at_once == TRUE

\* line 296: TimeoutExpired, CHILD_GRACE seconds after wait() was called
GraceExpired == main_timer = 0

\* line 295-301: wait(timeout=2) returns when the child has ended; after 2 s
\* TimeoutExpired is raised and the child is sent SIGKILL
MainWaitChild ==
    /\ main_pc = "wait_child"
    /\ \/ /\ child = "exited"
          /\ UNCHANGED << child, kill_sent >>
       \/ /\ child = "running" /\ GraceExpired
          /\ kill_sent' = TRUE
          /\ child' = "exited"
    /\ main_pc' = "join"
    /\ main_timer' = JOIN_TIMEOUT
    /\ UNCHANGED << rd_buf, term_sent >>
    /\ UNCHANGED << shared_vars, udp_socket, child_out, child_err, console >>
    /\ UNCHANGED << ctl_vars, published, obs >>

\* JoinReturns for a join() without a timeout
JoinReturns_no_timeout == ctl_pc = "ended"

\* line 301: join(timeout=5) returns: the thread has ended, or 5 s are over
JoinReturns == ctl_pc = "ended" \/ main_timer = 0

\* line 301-305: join(timeout=5) returns when the thread has ended or after
\* 5 s; main() returns and the daemon thread goes with the process
MainJoin ==
    /\ main_pc = "join"
    /\ JoinReturns
    /\ main_pc' = "exited"
    /\ main_timer' = 0
    /\ UNCHANGED << rd_buf, term_sent, kill_sent >>
    /\ UNCHANGED << shared_vars, env_vars, ctl_vars, published, obs >>

Main == MainLoop \/ MainInterrupt \/ MainTeardown \/ MainWaitChild \/ MainJoin

Env == ChildRelay \/ ChildLogError \/ ChildExit \/ ConsoleType \/ ConnectionLost

(* --------------------------------- time -------------------------------- *)
\* the seconds until the next of the running timers runs out
NextExpiry ==
    IF ctl_sleep > 0 /\ main_timer > 0
    THEN (IF ctl_sleep < main_timer THEN ctl_sleep ELSE main_timer)
    ELSE ctl_sleep + main_timer

\* Time passes, a second or more, up to the moment the next timer runs out:
\* the controller's time.sleep, main's wait(timeout=2) or join(timeout=5)
Tick ==
    /\ main_pc # "exited"
    /\ NextExpiry > 0
    /\ ctl_sleep' = IF ctl_sleep > 0 THEN ctl_sleep - NextExpiry ELSE 0
    /\ main_timer' = IF main_timer > 0 THEN main_timer - NextExpiry ELSE 0
    /\ obs' = [obs EXCEPT !.slept_on = @ \/ (stop_event /\ ctl_sleep > 0)]
    /\ UNCHANGED << ctl_pc, con, retries, input_data, current_distance,
                    previous_speed_fraction, new_speed_fraction, sess >>
    /\ UNCHANGED << main_pc, rd_buf, term_sent, kill_sent >>
    /\ UNCHANGED << shared_vars, env_vars, published >>

(* ---------------------------- specifications --------------------------- *)
InitShared ==
    /\ stop_event = FALSE
    /\ distance_queue = << >>
    /\ child = "running"
    /\ udp_socket = << >>
    /\ child_out = << >>
    /\ child_err = [pipe |-> 0, held |-> 0]
    /\ console = << >>
    /\ main_pc = "loop"
    /\ rd_buf = << >>
    /\ main_timer = 0
    /\ term_sent = FALSE
    /\ kill_sent = FALSE
    /\ retries = 0
    /\ ctl_sleep = 0
    /\ previous_speed_fraction = INITIAL_FRACTION
    /\ new_speed_fraction = INITIAL_FRACTION
    /\ published = << >>
    /\ obs = NewObs

\* the program after main() has started the child and the thread
Init ==
    /\ InitShared
    /\ ctl_pc = "top"
    /\ con = "None"
    /\ input_data = "None"
    /\ sess = NewSession
    /\ current_distance = INITIAL_DISTANCE

Next == Ctl \/ Main \/ Env \/ Tick

Spec == Init /\ [][Next]_vars

\* The Speed Governor on its own: the controller in the first cycle of a
\* session, after receive() and with the queue drained, for every distance
\* a float can hold there
InitGov ==
    /\ InitShared
    /\ ctl_pc = "drain"
    /\ con = "up"
    /\ input_data = "with"
    /\ sess = [NewSession EXCEPT !.inp = "ok", !.out = "ok", !.start = "ok",
                                 !.cyclic = TRUE]
    /\ current_distance \in AllDistances

NextGov == CtlCompute

GovSpec == InitGov /\ [][NextGov]_vars

\* The read loop's dispatch on its own: one line of any form waits on the
\* child's stdout, on its stderr and on the console, and a turn of the loop
\* reads them
StdoutForms ==
    { DistanceLine(d) : d \in SampleDistances \cup {NaN} }
    \cup { << Chr("x") >>,
           << Chr("DISTANCE"), Chr(":"), Chr("x") >>,
           << Chr("DISTANCE"), Chr(":") >>,
           << Chr("DISTANCE"), Chr(":"), FloatText(Unit), Chr(":"), Chr("x") >>,
           << Chr(" "), Chr("DISTANCE"), Chr(":"), FloatText(Unit) >> }

ConsoleForms ==
    { << Chr("q") >>, << Chr(" "), Chr("q") >>, << Chr("q"), Chr(" ") >>,
      << Chr("x") >>, << Chr("q"), Chr("q") >>, << >> }

InitDispatch ==
    /\ stop_event = FALSE
    /\ distance_queue = << >>
    /\ child = "running"
    /\ udp_socket = << >>
    /\ child_out \in { << >> } \cup { << l >> : l \in StdoutForms }
    /\ child_err \in { [pipe |-> n, held |-> 0] : n \in 0 .. 1 }
    /\ console \in { << >> } \cup { << l >> : l \in ConsoleForms }
    /\ main_pc = "loop"
    /\ rd_buf = << >>
    /\ main_timer = 0
    /\ term_sent = FALSE
    /\ kill_sent = FALSE
    /\ ctl_pc = "top"
    /\ con = "None"
    /\ retries = 0
    /\ ctl_sleep = 0
    /\ input_data = "None"
    /\ current_distance = INITIAL_DISTANCE
    /\ previous_speed_fraction = INITIAL_FRACTION
    /\ new_speed_fraction = INITIAL_FRACTION
    /\ sess = NewSession
    /\ published = << >>
    /\ obs = NewObs

NextDispatch == MainLoop

DispatchSpec == InitDispatch /\ [][NextDispatch]_vars

\* The decoder on its own: up to MaxDatagrams datagrams wait in its socket,
\* more may arrive, and a receive may fail
MaxDatagrams == 3

DatagramSeqs ==
    UNION { [1 .. n -> Datagrams] : n \in 0 .. MaxDatagrams }

InitDecoder ==
    /\ stop_event = FALSE
    /\ distance_queue = << >>
    /\ child = "running"
    /\ udp_socket \in DatagramSeqs
    /\ child_out = << >>
    /\ child_err = [pipe |-> 0, held |-> 0]
    /\ console = << >>
    /\ main_pc = "loop"
    /\ rd_buf = << >>
    /\ main_timer = 0
    /\ term_sent = FALSE
    /\ kill_sent = FALSE
    /\ ctl_pc = "top"
    /\ con = "None"
    /\ retries = 0
    /\ ctl_sleep = 0
    /\ input_data = "None"
    /\ current_distance = INITIAL_DISTANCE
    /\ previous_speed_fraction = INITIAL_FRACTION
    /\ new_speed_fraction = INITIAL_FRACTION
    /\ sess = NewSession
    /\ published = << >>
    /\ obs = NewObs

NextDecoder == ChildRelay \/ ChildLogError

DecoderSpec == InitDecoder /\ [][NextDecoder]_vars

\* the cyclic loop on its own, with a sensor that never stops sending: the
\* session streams, main reads and publishes, and the controller's cycles
\* run; both threads are scheduled again and again
InitDrain ==
    /\ stop_event = FALSE
    /\ distance_queue = << >>
    /\ child = "running"
    /\ udp_socket = << >>
    /\ child_out = << >>
    /\ child_err = [pipe |-> 0, held |-> 0]
    /\ console = << >>
    /\ main_pc = "loop"
    /\ rd_buf = << >>
    /\ main_timer = 0
    /\ term_sent = FALSE
    /\ kill_sent = FALSE
    /\ ctl_pc = "cycle"
    /\ con = "up"
    /\ retries = 0
    /\ ctl_sleep = 0
    /\ input_data \in {"with", "without"}
    /\ current_distance = INITIAL_DISTANCE
    /\ previous_speed_fraction = INITIAL_FRACTION
    /\ new_speed_fraction = INITIAL_FRACTION
    /\ sess = [NewSession EXCEPT !.inp = "ok", !.out = "ok", !.start = "ok"]
    /\ published = << >>
    /\ obs = NewObs

CtlCyclic == CtlCycle \/ CtlDrainGet \/ CtlCompute \/ CtlSend

NextDrain == CtlCyclic \/ ChildStream \/ MainLoop

DrainSpec ==
    /\ InitDrain /\ [][NextDrain]_vars
    /\ WF_vars(CtlCyclic) /\ WF_vars(MainLoop)

\* main's read loop with the child and the console, the controller thread
\* not looked at: main's loop runs again and again (poll returns after
\* 100 ms at the latest); the child and the user act when they do
NextIngest ==
    \/ MainLoop
    \/ ChildRelay \/ ChildLogError \/ ChildExit \/ ConsoleType

IngestSpec == Init /\ [][NextIngest]_vars /\ WF_vars(MainLoop)

\* main's teardown on its own: a console q has set stop_event, main has
\* left its read loop, the child runs or has gone, and the controller thread
\* is anywhere in its first pass, about to take a sample that waits when it
\* is in the drain
TeardownPcs ==
    { "top", "connect_loop", "retry_sleep", "after_connect", "input_setup",
      "output_setup", "send_start", "cycle", "drain", "gate",
      "except_refused", "except_error", "finally", "cooldown", "ended" }

ConAt(pc) ==
    IF pc \in {"top", "cooldown", "ended"} THEN "None"
    ELSE IF pc \in {"connect_loop", "retry_sleep", "except_refused"} THEN "new"
    ELSE "up"

SleepAt(pc) ==
    CASE pc = "retry_sleep" -> RETRY_DELAY
      [] pc = "except_refused" -> REFUSED_BACKOFF
      [] pc = "except_error" -> ERROR_BACKOFF
      [] pc = "cooldown" -> COOLDOWN
      [] OTHER -> 0

SessAt(pc) ==
    CASE pc \in {"top", "ended", "connect_loop", "input_setup"} -> NewSession
      [] pc = "retry_sleep" -> [NewSession EXCEPT !.connects = 1]
      [] pc = "except_refused" -> [NewSession EXCEPT !.connects = MAX_RETRIES]
      [] pc = "after_connect" -> [NewSession EXCEPT !.connects = 1]
      [] pc = "output_setup" -> [NewSession EXCEPT !.inp = "ok"]
      [] pc = "send_start" -> [NewSession EXCEPT !.inp = "ok", !.out = "ok"]
      [] pc = "cycle" ->
             [NewSession EXCEPT !.inp = "ok", !.out = "ok", !.start = "ok"]
      [] pc = "cooldown" ->
             [NewSession EXCEPT !.inp = "ok", !.out = "ok", !.start = "ok",
                                !.cyclic = TRUE, !.paused = TRUE, !.disc = TRUE]
      [] OTHER ->
             [NewSession EXCEPT !.inp = "ok", !.out = "ok", !.start = "ok",
                                !.cyclic = TRUE]

InitTeardown ==
    /\ stop_event = TRUE
    /\ child \in {"running", "exited"}
    /\ udp_socket = << >>
    /\ child_out = << >>
    /\ child_err = [pipe |-> 0, held |-> 0]
    /\ console = << >>
    /\ main_pc = "teardown"
    /\ rd_buf = << >>
    /\ main_timer = 0
    /\ term_sent = FALSE
    /\ kill_sent = FALSE
    /\ ctl_pc \in TeardownPcs
    /\ con = ConAt(ctl_pc)
    /\ retries = IF ctl_pc = "except_refused" THEN MAX_RETRIES ELSE 0
    /\ ctl_sleep = SleepAt(ctl_pc)
    /\ input_data = IF ctl_pc \in {"output_setup", "send_start", "cycle", "drain",
                                   "gate", "except_error", "finally"}
                    THEN "with" ELSE "None"
    /\ current_distance = INITIAL_DISTANCE
    /\ previous_speed_fraction = INITIAL_FRACTION
    /\ new_speed_fraction =
           IF ctl_pc \in {"gate", "except_error", "finally", "cooldown"}
           THEN calculate_speed_fraction(INITIAL_DISTANCE) ELSE INITIAL_FRACTION
    /\ sess = SessAt(ctl_pc)
    /\ distance_queue = IF ctl_pc = "drain" THEN << 3 * Unit >> ELSE << >>
    /\ published = distance_queue
    /\ obs = [NewObs EXCEPT !.stop_cause = "q",
                            !.put_since = (ctl_pc = "drain"),
                            !.held_at_stop = is_connected]

NextTeardown ==
    \/ Ctl
    \/ MainTeardown \/ MainWaitChild \/ MainJoin
    \/ ChildExit \/ ConnectionLost
    \/ Tick

\* main's thread runs and time passes; the controller thread may hang in a
\* call into the rtde library for good, so nothing is asked of it
TeardownSpec ==
    /\ InitTeardown /\ [][NextTeardown]_vars
    /\ WF_vars(MainTeardown \/ MainWaitChild \/ MainJoin)
    /\ WF_vars(Tick)

(* ------------------------------ properties ----------------------------- *)
\* the band table of the Speed Governor, in metres and percent
GovernorTable(d) ==
    CASE d < 0 -> 100
      [] 0 <= d /\ d < Unit -> 0
      [] Unit <= d /\ d < 2 * Unit -> 30
      [] 2 * Unit <= d /\ d < 3 * Unit -> 70
      [] 3 * Unit <= d -> 100

\* C1: the fraction computed from a distance is the one the band table gives
\* for it (below 0: 1.0; [0,1): 0.0; [1,2): 0.3; [2,3): 0.7; from 3 up: 1.0),
\* and for every distance, NaN included, it lies in [0.0, 1.0].
C1_GovernorTable ==
    ctl_pc = "gate" =>
        /\ new_speed_fraction \in 0 .. 100
        /\ current_distance # NaN =>
               new_speed_fraction = GovernorTable(current_distance)

\* the cycle has computed 0.3 for exactly 1 m, the lower edge of its band
C1_Witness ==
    ctl_pc = "gate" /\ current_distance = Unit /\ new_speed_fraction = 30

\* the newest value published so far; before any, the initial -1.0
LastPublished ==
    IF published = << >> THEN INITIAL_DISTANCE ELSE published[Len(published)]

\* C2: when the drain of a cycle ends, current_distance is the newest sample
\* published before that moment, whatever the number of samples that waited;
\* and a drain that ends with no sample published since the previous one
\* ended leaves current_distance at the value the previous one left.
C2_FreshnessDrain ==
    [][ (ctl_pc = "drain" /\ ctl_pc' = "gate") =>
            /\ current_distance' = LastPublished
            /\ ~obs.put_since => current_distance' = obs.drain_value ]_vars

\* one drain has taken two different samples that both waited since the
\* previous drain ended, and holds the second
C2_Witness ==
    /\ ctl_pc = "drain" /\ distance_queue = << >>
    /\ Len(published) = 2 /\ published[1] # published[2]
    /\ obs.drain_value = INITIAL_DISTANCE
    /\ current_distance = published[2]

SendReturned == obs'.run_sent # obs.run_sent

C4_ShutdownResponsive ==
    ~obs.slept_on

\* the finally block has run on a session that had reached the cyclic loop
Drained == ctl_pc = "cooldown" /\ sess.start = "ok"

C6_Reconnection ==
    /\ [](sess.connects <= 5)
    /\ [][ /\ (ctl_pc = "connect_loop" /\ ctl_pc' = "except_refused") =>
                  sess.connects = 5 /\ ctl_sleep' = 10
           /\ (ctl_pc = "except_refused" /\ ctl_pc' # ctl_pc) =>
                  ctl_sleep = 0 /\ ctl_pc' = "finally"
           /\ (ctl_pc = "finally" /\ ctl_pc' # ctl_pc) =>
                  ctl_pc' = "cooldown" /\ con' = "None"
           /\ (ctl_pc = "cooldown" /\ ctl_pc' # ctl_pc) =>
                  ctl_sleep = 0 /\ ctl_pc' = "top"
           /\ (ctl_pc = "top" /\ ctl_pc' # ctl_pc /\ ~stop_event) =>
                  /\ ctl_pc' = "connect_loop" /\ con' = "new"
                  /\ sess' = NewSession /\ retries' = 0 ]_vars

\* five connect() calls on one session object have failed and the
\* controller is in the 10 s backoff
C6_Witness ==
    ctl_pc = "except_refused" /\ sess.connects = 5 /\ ctl_sleep = 10

\* where the controller is after a failure, until the next pass
FailurePcs == {"except_refused", "except_error", "finally", "cooldown"}

\* C7: the controller thread ends only from the test at the top of its outer
\* loop, with stop_event set; it has never ended while stop_event is unset;
\* and after any failure it only moves handler -> finally -> cooldown -> top.
C7_TerminalCondition ==
    /\ [](ctl_pc = "ended" => stop_event)
    /\ [][ /\ (ctl_pc' = "ended" /\ ctl_pc # "ended") =>
                  ctl_pc = "top" /\ stop_event
           /\ (ctl_pc \in FailurePcs /\ ctl_pc' # ctl_pc) =>
                  << ctl_pc, ctl_pc' >> \in
                      { << "except_refused", "finally" >>,
                        << "except_error", "finally" >>,
                        << "finally", "cooldown" >>,
                        << "cooldown", "top" >> } ]_vars

\* with stop_event unset, the controller is connecting with a new session
\* object after an earlier session that had reached the cyclic loop
C7_Witness ==
    /\ ctl_pc = "connect_loop" /\ ~stop_event
    /\ con = "new" /\ sess.start = "no"
    /\ new_speed_fraction # INITIAL_FRACTION

\* one of the three handshake steps failed on the session
HandshakeFailed == "fail" \in {sess.inp, sess.out, sess.start}

\* C8: on a session, send_output_setup is called only after send_input_setup
\* succeeded, send_start only after send_output_setup succeeded, receive and
\* send only after send_start succeeded; once a step has failed the
\* controller is in the handler, the finally block or the cooldown, or back
\* at the outer loop's test, and nothing of the handshake is called on that
\* session again.
C8_HandshakeOrder ==
    /\ []( /\ sess.out # "no" => sess.inp = "ok"
           /\ sess.start # "no" => sess.out = "ok"
           /\ sess.cyclic => sess.start = "ok"
           /\ HandshakeFailed =>
                  ctl_pc \in {"except_error", "finally", "cooldown", "top", "ended"} )
    /\ [][ (HandshakeFailed /\ sess' # NewSession) =>
               /\ sess'.inp = sess.inp /\ sess'.out = sess.out
               /\ sess'.start = sess.start /\ sess'.cyclic = sess.cyclic ]_vars

\* send_output_setup failed after send_input_setup succeeded: send_start was
\* not called, and the session was disconnected
C8_Witness ==
    /\ sess.inp = "ok" /\ sess.out = "fail" /\ sess.start = "no"
    /\ ctl_pc = "cooldown" /\ sess.disc

\* C9: kill() is called only after terminate(), and only when wait(timeout=2)
\* has run its 2 s with the child still running; terminate() is called only
\* on a running child, from the teardown; with the child already gone
\* neither is called; and the teardown goes on to the join only with the
\* child not running.
C9_TeardownEscalation ==
    /\ [](kill_sent => term_sent)
    /\ [](main_pc \in {"join", "exited"} => child = "exited")
    /\ [](main_pc = "wait_child" => term_sent /\ main_timer <= 2)
    /\ [][ /\ (kill_sent' /\ ~kill_sent) =>
                  /\ term_sent /\ main_pc = "wait_child"
                  /\ main_timer = 0 /\ child = "running"
           /\ (term_sent' /\ ~term_sent) =>
                  main_pc = "teardown" /\ child = "running"
           /\ (main_pc = "teardown" /\ child = "exited") =>
                  ~term_sent' /\ ~kill_sent' ]_vars

\* the child outlived terminate() by 2 s and was killed
C9_Witness ==
    main_pc = "join" /\ term_sent /\ kill_sent /\ child = "exited"

\* a step of main's read loop: it reads, puts, sets stop_event or leaves
MainLoopStep ==
    /\ main_pc = "loop"
    /\ \/ main_pc' # main_pc \/ stop_event' # stop_event
       \/ rd_buf' # rd_buf \/ published' # published
       \/ Len(console') < Len(console)

WaitingStdout == IF child_out = << >> THEN << >> ELSE Head(child_out)
WaitingConsole == IF console = << >> THEN << >> ELSE Head(console)

\* the floats d for which the line is DISTANCE:<d>, with blanks allowed
\* around the float and anything after a second colon
FloatsOfLine(l) ==
    { d \in AllDistances :
        /\ Len(l) >= 3 /\ l[1] = Chr("DISTANCE") /\ l[2] = Chr(":")
        /\ \E i \in 3 .. Len(l), j \in 4 .. Len(l) + 1 :
             /\ i < j /\ l[i] = FloatText(d)
             /\ j = Len(l) + 1 \/ l[j] = Chr(":")
             /\ \A k \in 3 .. j - 1 : k = i \/ l[k] = Chr(" ") }

\* the line is q with blanks allowed around it
IsQuit(l) ==
    \E i \in 1 .. Len(l) :
        l[i] = Chr("q") /\ \A k \in 1 .. Len(l) : k = i \/ l[k] = Chr(" ")

\* C11 as stated: a turn of the read loop puts a sample exactly when the
\* stdout line is DISTANCE:<float> and nothing else, and sets stop_event
\* exactly when the console line is the literal q.
C11_LiteralDispatch ==
    [][ (main_pc = "loop" /\ ~stop_event) =>
            /\ (published' # published) =
                   (\E d \in AllDistances : WaitingStdout = DistanceLine(d))
            /\ stop_event' = (WaitingConsole = << Chr("q") >>) ]_vars

\* C11: a turn of the read loop puts a sample exactly when the stdout line
\* starts with DISTANCE: and what stands between that and the next colon (or
\* the end of the line) is a float, blanks aside, and then it puts that float;
\* it sets stop_event exactly when the console line is q once the blanks
\* around it are stripped; a stderr line changes neither; and whatever the
\* lines were, the loop goes on.
C11_Dispatch ==
    [][ (main_pc = "loop" /\ ~stop_event) =>
            /\ published' =
                   IF child_out # << >> /\ FloatsOfLine(WaitingStdout) # {}
                   THEN Append(published,
                               CHOOSE d \in FloatsOfLine(WaitingStdout) : TRUE)
                   ELSE published
            /\ distance_queue' = distance_queue \o
                   SubSeq(published', Len(published) + 1, Len(published'))
            /\ stop_event' = (console # << >> /\ IsQuit(WaitingConsole))
            /\ main_pc' = "loop" ]_vars

\* one turn has put a sample and set stop_event, and the loop has not left
C11_Witness ==
    /\ main_pc = "loop" /\ stop_event /\ published # << >>
    /\ child_out = << >> /\ console = << >>

\* C12: stop_event, once set, stays set; a step that changes anything of the
\* controller thread leaves it as it is; and the step that sets it is a step
\* of main in its read loop, taken with a console line that strips to q
\* waiting, with the child gone, or for a keyboard interrupt.
C12_SetOnce ==
    /\ [](stop_event = (obs.stop_cause # "none"))
    /\ [][ /\ stop_event => stop_event'
           /\ ctl_vars' # ctl_vars => stop_event' = stop_event
           /\ (stop_event' /\ ~stop_event) =>
                  /\ main_pc = "loop" /\ ctl_vars' = ctl_vars
                  /\ obs'.stop_cause = "q" => IsQuit(WaitingConsole) /\ console # << >>
                  /\ obs'.stop_cause = "child" => child = "exited"
                  /\ obs'.stop_cause = "interrupt" => main_pc' = "teardown" ]_vars

\* the console line set stop_event, the controller thread has seen it and
\* ended, the program has exited, and stop_event is still set
C12_Witness ==
    /\ stop_event /\ obs.stop_cause = "q"
    /\ ctl_pc = "ended" /\ main_pc = "exited"

\* C13: distance_queue holds at most one sample: a put replaces the sample
\* that waits rather than adding to it.
C13_SingleSlot ==
    Len(distance_queue) <= 1

\* the line the decoder is to write for a datagram: for 4 bytes one
\* DISTANCE line with the float, otherwise none
LinesDue(dgram) ==
    IF dgram.size = 4
    THEN << << Chr("DISTANCE"), Chr(":"), FloatText(dgram.value) >> >>
    ELSE << >>

\* C14: each receive takes the oldest datagram and adds to the stdout pipe
\* one DISTANCE line with its float when it has 4 bytes and nothing
\* otherwise, after the lines written before; a datagram that arrives when
\* none waits adds at most one line; and neither a datagram of another
\* length nor a failed receive ends the decoder.
C14_DecoderRelay ==
    [][ /\ udp_socket' # udp_socket =>
               /\ udp_socket' = Tail(udp_socket)
               /\ child_out' = child_out \o LinesDue(Head(udp_socket))
        /\ (udp_socket' = udp_socket /\ child_out' # child_out) =>
               \E d \in AllDistances : child_out' = Append(child_out, DistanceLine(d))
        /\ child' = "running" ]_vars

\* the socket has been emptied, a failed receive has been logged, and two
\* lines stand in the pipe, 3 m before 0.5 m, with the decoder running
C14_Witness ==
    /\ udp_socket = << >> /\ child = "running"
    /\ child_out = << DistanceLine(3 * Unit), DistanceLine(Unit \div 2) >>
    /\ child_err.pipe = 1

\* C15: a turn of the cyclic loop that ends where it began, which is what a
\* receive() returning nothing makes of it, takes nothing from
\* distance_queue and leaves current_distance, the computed and the
\* remembered fraction, the connection and the session's pause and
\* disconnect record as they were; and the loop is left for the finally
\* block from its test only with stop_event set or the connection gone.
C15_ReceiveNothing ==
    [][ /\ (ctl_pc = "cycle" /\ ctl_pc' = "cycle") =>
               /\ SubSeq(distance_queue', 1, Len(distance_queue)) = distance_queue
               /\ current_distance' = current_distance
               /\ new_speed_fraction' = new_speed_fraction
               /\ previous_speed_fraction' = previous_speed_fraction
               /\ obs'.run_sent = obs.run_sent
               /\ input_data' = input_data
               /\ con' \in {con, "down"}
               /\ sess'.paused = sess.paused /\ sess'.disc = sess.disc
        /\ (ctl_pc = "cycle" /\ ctl_pc' = "finally") =>
               stop_event \/ con # "up" ]_vars

\* receive() has been called on the session and has only ever returned
\* nothing: no fraction was ever computed, the sample that waits was not
\* taken, and the controller is at the loop's test with the session up
C15_Witness ==
    /\ ctl_pc = "cycle" /\ sess.cyclic /\ con = "up" /\ ~stop_event
    /\ new_speed_fraction = INITIAL_FRACTION
    /\ previous_speed_fraction = INITIAL_FRACTION
    /\ distance_queue # << >>

\* the number of samples the controller has taken off distance_queue
Consumed == Len(published) - Len(distance_queue)

\* C16: current_distance, from which every fraction is computed, is the
\* initial -1.0 until a sample is taken and after that always the sample
\* taken last, and the samples are taken in the order they were put, none
\* twice and none after a later one: the position in the published sequence
\* of the sample in use never goes back.
C16_DeliveryOrder ==
    /\ [](/\ Consumed \in 0 .. Len(published)
          /\ current_distance =
                 IF Consumed = 0 THEN INITIAL_DISTANCE ELSE published[Consumed])
    /\ [][ /\ Consumed' >= Consumed
           /\ SubSeq(published', 1, Len(published)) = published ]_vars

\* 0.5 m was put, used and its fraction 0.0 sent; 3 m was put after it and
\* is the distance the cycle has now computed 1.0 from
C16_Witness ==
    /\ ctl_pc = "gate"
    /\ published = << Unit \div 2, 3 * Unit >> /\ distance_queue = << >>
    /\ previous_speed_fraction = 0
    /\ current_distance = 3 * Unit /\ new_speed_fraction = 100

\* C17: main, once in its teardown, reaches the program's exit, with no
\* fairness asked of the controller thread; it passes from the join only to
\* the exit, the join never has more than 5 s to run, and the exit is final.
C17_BoundedJoin ==
    /\ (main_pc = "teardown") ~> (main_pc = "exited")
    /\ [](main_pc = "join" => main_timer <= JOIN_TIMEOUT)
    /\ [][ /\ (main_pc = "join" /\ main_pc' # main_pc) => main_pc' = "exited"
           /\ main_pc = "exited" => main_pc' = "exited" ]_vars

\* the program has exited with the controller thread still in its 30 s
\* sleep, after the child had to be killed
C17_Witness ==
    main_pc = "exited" /\ kill_sent /\ ctl_pc = "cooldown" /\ ctl_sleep > 0


\* a cycle in which a state packet was received ends: its last step is the
\* one from the comparison of line 151-152 back to the loop's test
CycleCompleted == ctl_pc = "gate" /\ ctl_pc' = "cycle"

\* C18: whenever a cycle in which a state packet was received has been
\* completed, the fraction last transmitted on the current session is
\* calculate_speed_fraction(current_distance); in particular the first such
\* cycle of a new session transmits the current fraction, also when it is the
\* one last sent on the session before.
C18_ThrottleInForce ==
    [][ CycleCompleted =>
          sess'.sent = calculate_speed_fraction(current_distance') ]_vars


\* C19: previous_speed_fraction only ever advances to a fraction whose
\* transmission succeeded: whenever it changes, its new value is the fraction
\* of the last con.send() on the session that returned true; a send that
\* returns a false value or raises leaves it as it was.
C19_AdvanceOnSuccess ==
    [][ previous_speed_fraction' # previous_speed_fraction =>
          sess'.sent = previous_speed_fraction' ]_vars


\* C20: control is released before the program exits: when a session was
\* connected at the moment stop_event was set, send_pause() and disconnect()
\* have been called on it by the time main() has finished its teardown.
C20_ReleasedBeforeExit ==
    (main_pc = "exited" /\ obs.held_at_stop) => (sess.paused /\ sess.disc)


\* C21: the loop that empties distance_queue finishes in every cycle with a
\* state packet, and the cycle goes on to compute the fraction, also while
\* main keeps publishing samples.
C21_DrainTerminates == (ctl_pc = "drain") ~> (ctl_pc = "gate")


\* line 151-155: the comparison lets the fraction through: new_speed_fraction
\* is about to be passed to con.send
Sending == ctl_pc = "gate" /\ SendGate

PublishedSamples == { published[i] : i \in 1 .. Len(published) }

\* C22: every fraction passed to con.send is calculate_speed_fraction(d) of a
\* sample d published before or of the initial -1.0; while nothing has been
\* published it is 1.0; and a fraction below 1.0 is passed only after a
\* sample d with 0 <= d < 3 has been published.
C22_JustifiedFraction ==
    Sending =>
      /\ \E d \in {INITIAL_DISTANCE} \cup PublishedSamples :
            new_speed_fraction = calculate_speed_fraction(d)
      /\ published = << >> => new_speed_fraction = 100
      /\ new_speed_fraction < 100 =>
            \E d \in PublishedSamples : 0 <= d /\ d < 3 * Unit

\* a fraction below 1.0 is about to be sent, and one of 1.0 was sent before
\* on the session
C22_Witness ==
    Sending /\ new_speed_fraction < 100 /\ sess.sent = 100


\* C23: while stop_event is unset and the child is alive, every DISTANCE line
\* the child has written to its stdout is eventually read and published, also
\* when several lines were written between two wakes and none follows: once
\* n lines have been written, n values get published.
C23_NoSampleLeft ==
    \A n \in 1 .. MaxSamples :
        (Relayed >= n) ~> (Len(published) >= n \/ stop_event \/ child = "exited")

====
